---- MODULE Spec2Model ----
(***************************************************************************)
(* Model of the bank balance overlay (cosmos/x/evm/plugins/state/bank),    *)
(* of the Ethereum transaction pool wrapper (EthTxPool) and of the genesis *)
(* pass of the state plugin (cosmos/x/evm/plugins/state) of molaris.       *)
(***************************************************************************)
EXTENDS Integers, Sequences, FiniteSets, TLC

VARIABLES
    ledger,     \* bankKeeper: balance of every account in underlyingDenom
    moduleBal,  \* bankKeeper: balance of the evm module account
    supply,     \* bankKeeper: total supply of underlyingDenom
    states,     \* Manager.states: the stack of *state, bottom first
    calls,      \* the mutating bankKeeper calls issued by the operation in ret
    ret,        \* the last Manager operation but a read, its arguments and result
    snapView,   \* per frame: what GetBalance returned right before the frame was pushed
    commits,    \* number of Commit calls so far
    recorded    \* number of balance changes recorded so far

overlayVars ==
    <<ledger, moduleBal, supply, states, calls, ret, snapView, commits, recorded>>

VARIABLES
    pool,         \* PriorityNonceMempool: (sender, nonce) -> the transaction held
    nonceToHash,  \* etp.nonceToHash: sender -> nonce -> hash
    ethTxCache,   \* etp.ethTxCache: hash -> transaction
    sdbNonce,     \* etp.nr: the nonce the statedb reports for every sender
    pret          \* the last EthTxPool operation: its transaction, its error and
                  \* the calls it made to the underlying pool and to etp.nr

poolVars == <<pool, nonceToHash, ethTxCache, sdbNonce, pret>>

VARIABLES
    mu,     \* etp.mu: the caller that holds the lock, 0 when it is unlocked
    pc,     \* per caller: the statement of Insert or Remove it is at
    job,    \* per caller: the call it is in, its locals and the error it returns
    entry   \* the pool, index and cache as they were when the lock was last taken
            \* or released

lockVars == <<mu, pc, job, entry>>

VARIABLES
    accountStore,  \* the state plugin's accounts: address -> code, storage, nonce
    ethGen,        \* ethGen.Alloc of the last genesis call
    pluginCalls,   \* the plugin methods the last genesis call invoked, in order
    gret           \* the last genesis operation

genesisVars == <<accountStore, ethGen, pluginCalls, gret>>

vars == <<overlayVars, poolVars, lockVars, genesisVars>>

----------------------------------------------------------------------------
(* Bounds of the model *)

MaxBal == 1       \* the largest balance SetBalance is called with
MaxFrames == 3    \* the deepest stack of states
MaxChanges == 2   \* the number of balance changes recorded in one run
MaxCommits == 2   \* the number of Commit calls in one run

Accounts == {"a1", "a2"}

\* the balances SetBalance is called with
Values == {0, MaxBal}

\* the ledger before execution: a funded account and an unknown (zero) one
InitLedger == [a \in Accounts |-> IF a = "a1" THEN 1 ELSE 0]

----------------------------------------------------------------------------
(* The bank keeper (BankKeeper interface) *)

NoErr == "nil"

Bank == [ledger |-> ledger, moduleBal |-> moduleBal, supply |-> supply]

\* b after one keeper call, and the error the call returns. broken: the keeper
\* refuses the call for a reason of its own (permissions, blocked address).
Keeper(b, call, broken) ==
    IF broken THEN [b |-> b, err |-> <<"keeper error", call.op>>]
    ELSE IF call.op = "MintCoins"
    THEN [b |-> [b EXCEPT !.moduleBal = @ + call.amt, !.supply = @ + call.amt],
          err |-> NoErr]
    ELSE IF call.op = "SendCoinsFromModuleToAccount"
    THEN IF b.moduleBal < call.amt
         THEN [b |-> b, err |-> <<"insufficient funds", call.op>>]
         ELSE [b |-> [b EXCEPT !.moduleBal = @ - call.amt,
                               !.ledger[call.addr] = @ + call.amt],
               err |-> NoErr]
    ELSE IF call.op = "SendCoinsFromAccountToModule"
    THEN IF b.ledger[call.addr] < call.amt
         THEN [b |-> b, err |-> <<"insufficient funds", call.op>>]
         ELSE [b |-> [b EXCEPT !.moduleBal = @ + call.amt,
                               !.ledger[call.addr] = @ - call.amt],
               err |-> NoErr]
    ELSE \* BurnCoins
         IF b.moduleBal < call.amt
         THEN [b |-> b, err |-> <<"insufficient funds", call.op>>]
         ELSE [b |-> [b EXCEPT !.moduleBal = @ - call.amt, !.supply = @ - call.amt],
               err |-> NoErr]

----------------------------------------------------------------------------
(* The stack of states (lib/ds/stack) *)

Push(s, e) == Append(s, e)

PopToSize(s, n) == SubSeq(s, 1, n)

Peek(s) == s[Len(s)]

----------------------------------------------------------------------------
(* Manager *)

NewState == [balanceChanges |-> <<>>, dirtyBalances |-> <<>>]

\* the stack after getCurState: the base state is pushed on first use
getCurState(st) == IF Len(st) = 0 THEN Push(st, NewState) ELSE st

\* GetBalance that never looks at dirtyBalances
Balance_LedgerOnly(st, led, addr) == led[addr]

\* what Manager.GetBalance returns on the stack st (after getCurState)
Balance(st, led, addr) ==
    LET curState == Peek(getCurState(st))
    IN  IF addr \in DOMAIN curState.dirtyBalances
        THEN curState.dirtyBalances[addr]
        ELSE led[addr]

BalanceView(st, led) == [a \in Accounts |-> Balance(st, led, a)]

\* an assignment that does not overwrite an existing entry
PutDirty_KeepOld(d, addr, v) ==
    [a \in (DOMAIN d) \cup {addr} |-> IF a \in DOMAIN d THEN d[a] ELSE v]

\* dirtyBalances[addr] = v
PutDirty(d, addr, v) ==
    [a \in (DOMAIN d) \cup {addr} |-> IF a = addr THEN v ELSE d[a]]

NumChanges(st) ==
    LET RECURSIVE Sum(_)
        Sum(i) == IF i = 0 THEN 0 ELSE Len(st[i].balanceChanges) + Sum(i - 1)
    IN  Sum(Len(st))

\* the frame pushed lazily by getCurState has no snapshot before it
TrackBase(st) ==
    IF Len(st) = 0
    THEN <<[bal |-> BalanceView(st, ledger), clean |-> TRUE]>>
    ELSE snapView

\* a read that stores the balance it read in dirtyBalances
GetBalance_CacheRead(addr) ==
    LET st == getCurState(states)
        curState == Peek(st)
    IN  /\ states' = [st EXCEPT ![Len(st)] =
                        [curState EXCEPT !.dirtyBalances =
                            PutDirty(curState.dirtyBalances, addr,
                                     Balance(states, ledger, addr))]]
        /\ snapView' = TrackBase(states)
        /\ UNCHANGED <<ledger, moduleBal, supply, commits, calls, ret, recorded>>
        /\ UNCHANGED <<poolVars, lockVars, genesisVars>>

\* a read: it returns Balance(states, ledger, addr) and is not recorded in ret
GetBalance(addr) ==
    /\ states' = getCurState(states)
    /\ snapView' = TrackBase(states)
    /\ UNCHANGED <<ledger, moduleBal, supply, commits, calls, ret, recorded>>
    /\ UNCHANGED <<poolVars, lockVars, genesisVars>>

\* SetBalance that also credits or debits the ledger right away
SetBalance_WriteThrough(addr, newBalance) ==
    LET st == getCurState(states)
        curState == Peek(st)
        delta == newBalance - Balance(states, ledger, addr)
    IN  /\ delta # 0
        /\ recorded < MaxChanges
        /\ recorded' = recorded + 1
        /\ states' = [st EXCEPT ![Len(st)] =
                        [balanceChanges |->
                            Append(curState.balanceChanges,
                                   [Addr |-> addr, Delta |-> delta]),
                         dirtyBalances |->
                            PutDirty(curState.dirtyBalances, addr, newBalance)]]
        /\ ledger' = [ledger EXCEPT ![addr] = newBalance]
        /\ snapView' = TrackBase(states)
        /\ calls' = <<>>
        /\ ret' = [op |-> "SetBalance", addr |-> addr, newBalance |-> newBalance]
        /\ UNCHANGED <<moduleBal, supply, commits>>
        /\ UNCHANGED <<poolVars, lockVars, genesisVars>>

\* SetBalance without the check of the sign of delta
SetBalance_RecordZero(addr, newBalance) ==
    LET oldBalance == Balance(states, ledger, addr)
        delta == newBalance - oldBalance
        st == getCurState(states)
        curState == Peek(st)
    IN  /\ recorded < MaxChanges
        /\ recorded' = recorded + 1
        /\ states' =
             [st EXCEPT ![Len(st)] =
                [balanceChanges |->
                    Append(curState.balanceChanges, [Addr |-> addr, Delta |-> delta]),
                 dirtyBalances |->
                    PutDirty(curState.dirtyBalances, addr, newBalance)]]
        /\ snapView' = TrackBase(states)
        /\ calls' = <<>>
        /\ ret' = [op |-> "SetBalance", addr |-> addr, newBalance |-> newBalance]
        /\ UNCHANGED <<ledger, moduleBal, supply, commits>>
        /\ UNCHANGED <<poolVars, lockVars, genesisVars>>


\* SetBalance that takes the ledger balance, not GetBalance, as the old balance
SetBalance_DeltaFromLedger(addr, newBalance) ==
    LET oldBalance == ledger[addr]
        delta == newBalance - oldBalance
        st == getCurState(states)
        curState == Peek(st)
    IN  /\ delta # 0 => recorded < MaxChanges
        /\ recorded' = IF delta = 0 THEN recorded ELSE recorded + 1
        /\ states' =
             IF delta = 0 THEN st
             ELSE [st EXCEPT ![Len(st)] =
                    [balanceChanges |->
                        Append(curState.balanceChanges,
                               [Addr |-> addr, Delta |-> delta]),
                     dirtyBalances |->
                        PutDirty(curState.dirtyBalances, addr, newBalance)]]
        /\ snapView' = TrackBase(states)
        /\ calls' = <<>>
        /\ ret' = [op |-> "SetBalance", addr |-> addr, newBalance |-> newBalance]
        /\ UNCHANGED <<ledger, moduleBal, supply, commits>>
        /\ UNCHANGED <<poolVars, lockVars, genesisVars>>


SetBalance(addr, newBalance) ==
    LET oldBalance == Balance(states, ledger, addr)
        delta == newBalance - oldBalance
        st == getCurState(states)
        curState == Peek(st)
    IN  /\ delta # 0 => recorded < MaxChanges
        /\ recorded' = IF delta = 0 THEN recorded ELSE recorded + 1
        /\ states' =
             IF delta = 0 THEN st
             ELSE [st EXCEPT ![Len(st)] =
                    [balanceChanges |->
                        Append(curState.balanceChanges,
                               [Addr |-> addr, Delta |-> delta]),
                     dirtyBalances |->
                        PutDirty(curState.dirtyBalances, addr, newBalance)]]
        /\ snapView' = TrackBase(states)
        /\ calls' = <<>>
        /\ ret' = [op |-> "SetBalance", addr |-> addr, newBalance |-> newBalance]
        /\ UNCHANGED <<ledger, moduleBal, supply, commits>>
        /\ UNCHANGED <<poolVars, lockVars, genesisVars>>
    /\ UNCHANGED <<poolVars, lockVars, genesisVars>>

\* a Snapshot whose new frame starts with an empty dirtyBalances
Snapshot_EmptyDirty ==
    LET st == getCurState(states)
        newState == [balanceChanges |-> <<>>, dirtyBalances |-> <<>>]
    IN  /\ Len(st) < MaxFrames
        /\ states' = Push(st, newState)
        /\ snapView' = Append(TrackBase(states),
                              [bal |-> BalanceView(states, ledger), clean |-> TRUE])
        /\ calls' = <<>>
        /\ ret' = [op |-> "Snapshot", result |-> Len(Push(st, newState)) - 1]
        /\ UNCHANGED <<ledger, moduleBal, supply, commits, recorded>>
        /\ UNCHANGED <<poolVars, lockVars, genesisVars>>


Snapshot ==
    LET st == getCurState(states)
        curState == Peek(st)
        newState == [balanceChanges |-> <<>>,
                     dirtyBalances |-> curState.dirtyBalances]
    IN  /\ Len(st) < MaxFrames
        /\ states' = Push(st, newState)
        /\ snapView' = Append(TrackBase(states),
                              [bal |-> BalanceView(states, ledger), clean |-> TRUE])
        /\ calls' = <<>>
        /\ ret' = [op |-> "Snapshot", result |-> Len(Push(st, newState)) - 1]
        /\ UNCHANGED <<ledger, moduleBal, supply, commits, recorded>>
        /\ UNCHANGED <<poolVars, lockVars, genesisVars>>
    /\ UNCHANGED <<poolVars, lockVars, genesisVars>>

\* a revert that keeps the frame the snapshot pushed
RevertToSnapshot_KeepFrame(id) ==
    /\ id \in 1 .. Len(states) - 1
    /\ states' = PopToSize(states, id + 1)
    /\ snapView' = SubSeq(snapView, 1, id + 1)
    /\ calls' = <<>>
    /\ ret' = [op |-> "RevertToSnapshot", id |-> id, height |-> Len(states),
               discarded |-> NumChanges(states) - NumChanges(PopToSize(states, id + 1))]
    /\ UNCHANGED <<ledger, moduleBal, supply, commits, recorded>>
    /\ UNCHANGED <<poolVars, lockVars, genesisVars>>

\* a revert that also drops the frame that was current when the snapshot was
\* taken
RevertToSnapshot_PopBelow(id) ==
    /\ id \in 1 .. Len(states) - 1
    /\ states' = PopToSize(states, id - 1)
    /\ snapView' = SubSeq(snapView, 1, id - 1)
    /\ calls' = <<>>
    /\ ret' = [op |-> "RevertToSnapshot", id |-> id, height |-> Len(states),
               discarded |-> NumChanges(states) - NumChanges(PopToSize(states, id - 1))]
    /\ UNCHANGED <<ledger, moduleBal, supply, commits, recorded>>
    /\ UNCHANGED <<poolVars, lockVars, genesisVars>>

\* a revert that discards the top frame only
RevertToSnapshot_PopOne(id) ==
    /\ id \in 1 .. Len(states) - 1
    /\ states' = PopToSize(states, Len(states) - 1)
    /\ snapView' = SubSeq(snapView, 1, Len(states) - 1)
    /\ calls' = <<>>
    /\ ret' = [op |-> "RevertToSnapshot", id |-> id, height |-> Len(states),
               discarded |->
                  NumChanges(states) - NumChanges(PopToSize(states, Len(states) - 1))]
    /\ UNCHANGED <<ledger, moduleBal, supply, commits, recorded>>
    /\ UNCHANGED <<poolVars, lockVars, genesisVars>>

\* id is an id returned by a Snapshot whose frame is still on the stack
RevertToSnapshot(id) ==
    /\ id \in 1 .. Len(states) - 1
    /\ states' = PopToSize(states, id)
    /\ snapView' = SubSeq(snapView, 1, id)
    /\ calls' = <<>>
    /\ ret' = [op |-> "RevertToSnapshot", id |-> id, height |-> Len(states),
               discarded |-> NumChanges(states) - NumChanges(PopToSize(states, id))]
    /\ UNCHANGED <<ledger, moduleBal, supply, commits, recorded>>
    /\ UNCHANGED <<poolVars, lockVars, genesisVars>>

\* the method body is empty
Finalize ==
    /\ UNCHANGED <<overlayVars, lockVars, genesisVars>>
    /\ UNCHANGED <<poolVars, lockVars, genesisVars>>

\* a call that is issued even after an earlier call returned an error
Call_KeepGoing(r, call, failAt) ==
    LET res == Keeper(r.b, call, Len(r.calls) + 1 = failAt)
    IN  [b |-> res.b, calls |-> Append(r.calls, call),
         err |-> IF r.err # NoErr THEN r.err ELSE res.err]

\* one bankKeeper call of Commit: nothing is called once an error was returned
Call(r, call, failAt) ==
    IF r.err # NoErr THEN r
    ELSE LET res == Keeper(r.b, call, Len(r.calls) + 1 = failAt)
         IN  [b |-> res.b, calls |-> Append(r.calls, call), err |-> res.err]

\* a loop body that skips the debits
ApplyChange_IgnoreDebit(r, change, failAt) ==
    IF change.Delta > 0
    THEN Call(Call(r, [op |-> "MintCoins", amt |-> change.Delta], failAt),
              [op |-> "SendCoinsFromModuleToAccount", addr |-> change.Addr,
               amt |-> change.Delta], failAt)
    ELSE r

\* a loop body that burns before it has collected the debit
ApplyChange_BurnFirst(r, change, failAt) ==
    IF change.Delta > 0
    THEN Call(Call(r, [op |-> "MintCoins", amt |-> change.Delta], failAt),
              [op |-> "SendCoinsFromModuleToAccount", addr |-> change.Addr,
               amt |-> change.Delta], failAt)
    ELSE IF change.Delta < 0
    THEN Call(Call(r, [op |-> "BurnCoins", amt |-> -change.Delta], failAt),
              [op |-> "SendCoinsFromAccountToModule", addr |-> change.Addr,
               amt |-> -change.Delta], failAt)
    ELSE r

\* a loop body that collects a debit and never burns it
ApplyChange_NoBurn(r, change, failAt) ==
    IF change.Delta > 0
    THEN Call(Call(r, [op |-> "MintCoins", amt |-> change.Delta], failAt),
              [op |-> "SendCoinsFromModuleToAccount", addr |-> change.Addr,
               amt |-> change.Delta], failAt)
    ELSE IF change.Delta < 0
    THEN Call(r, [op |-> "SendCoinsFromAccountToModule", addr |-> change.Addr,
                  amt |-> -change.Delta], failAt)
    ELSE r

\* the body of Commit's inner loop for one balanceChange
ApplyChange(r, change, failAt) ==
    IF change.Delta > 0
    THEN Call(Call(r, [op |-> "MintCoins", amt |-> change.Delta], failAt),
              [op |-> "SendCoinsFromModuleToAccount", addr |-> change.Addr,
               amt |-> change.Delta], failAt)
    ELSE IF change.Delta < 0
    THEN Call(Call(r, [op |-> "SendCoinsFromAccountToModule", addr |-> change.Addr,
                       amt |-> -change.Delta], failAt),
              [op |-> "BurnCoins", amt |-> -change.Delta], failAt)
    ELSE r

\* Commit's loops: for i over the states, for j over s.balanceChanges
RECURSIVE CommitFrom(_, _, _, _, _)
CommitFrom(r, st, i, j, failAt) ==
    IF i > Len(st) THEN r
    ELSE IF j > Len(st[i].balanceChanges) THEN CommitFrom(r, st, i + 1, 1, failAt)
    ELSE CommitFrom(ApplyChange(r, st[i].balanceChanges[j], failAt), st, i, j + 1, failAt)

\* a Commit that empties the journal it has replayed
Commit_ClearJournal(failAt) ==
    LET st == getCurState(states)
        r == CommitFrom([b |-> Bank, calls |-> <<>>, err |-> NoErr], st, 1, 1, failAt)
    IN  /\ commits < MaxCommits
        /\ failAt <= 2 * NumChanges(states)
        /\ commits' = commits + 1
        /\ states' = [i \in DOMAIN st |-> [st[i] EXCEPT !.balanceChanges = <<>>]]
        /\ ledger' = r.b.ledger
        /\ moduleBal' = r.b.moduleBal
        /\ supply' = r.b.supply
        /\ calls' = r.calls
        /\ snapView' = [i \in DOMAIN TrackBase(states) |->
                          [TrackBase(states)[i] EXCEPT
                              !.clean = @ /\ r.b.ledger = ledger]]
        /\ ret' = [op |-> "Commit", err |-> r.err]
        /\ UNCHANGED recorded
        /\ UNCHANGED <<poolVars, lockVars, genesisVars>>


Commit(failAt) ==
    LET st == getCurState(states)
        r == CommitFrom([b |-> Bank, calls |-> <<>>, err |-> NoErr], st, 1, 1, failAt)
    IN  /\ commits < MaxCommits
        /\ failAt <= 2 * NumChanges(states)
        /\ commits' = commits + 1
        /\ states' = st
        /\ ledger' = r.b.ledger
        /\ moduleBal' = r.b.moduleBal
        /\ supply' = r.b.supply
        /\ calls' = r.calls
        /\ snapView' = [i \in DOMAIN TrackBase(states) |->
                          [TrackBase(states)[i] EXCEPT
                              !.clean = @ /\ r.b.ledger = ledger]]
        /\ ret' = [op |-> "Commit", err |-> r.err]
        /\ UNCHANGED recorded
        /\ UNCHANGED <<poolVars, lockVars, genesisVars>>


----------------------------------------------------------------------------
(* Transactions *)

MaxNonce == 0
MaxVariant == 2

AddrLen == 2

\* the address whose bytes are all x
Addr(x) == [i \in 1 .. AddrLen |-> x]

ReservedAddress == Addr(9)
S1 == Addr(1)
S2 == Addr(2)
EthSenders == {S1, S2}
Nonces == 0 .. MaxNonce
Variants == 1 .. MaxVariant

\* common.BytesToAddress: the last AddrLen bytes, left-padded with zeros
BytesToAddress(b) ==
    IF Len(b) >= AddrLen
    THEN SubSeq(b, Len(b) - AddrLen + 1, Len(b))
    ELSE [i \in 1 .. AddrLen |->
            IF i <= AddrLen - Len(b) THEN 0 ELSE b[i - (AddrLen - Len(b))]]

\* Ethereum transactions wrapped as sdk.Tx: one signer, the sender. S1 sends
\* a transaction of every nonce, and every variant of the one of nonce 0; S2
\* and the reserved account send one each.
EthTxs ==
    [eth : {TRUE}, sig : {"ok"}, signers : {<<S1>>}, nonce : {0}, v : Variants]
    \cup [eth : {TRUE}, sig : {"ok"}, signers : {<<S1>>}, nonce : Nonces, v : {1}]
    \cup [eth : {TRUE}, sig : {"ok"}, signers : {<<S2>>, <<ReservedAddress>>},
          nonce : {0}, v : {1}]

\* other sdk.Tx values
CosmosTxs ==
    {[eth |-> FALSE, sig |-> "ok", signers |-> <<S1>>, nonce |-> 0, v |-> 1],
     [eth |-> FALSE, sig |-> "ok", signers |-> <<S1, <<7>> \o ReservedAddress>>, nonce |-> 0, v |-> 1],
     [eth |-> FALSE, sig |-> "ok", signers |-> <<Tail(ReservedAddress)>>, nonce |-> 0, v |-> 1],
     [eth |-> FALSE, sig |-> "notSigVerifiable", signers |-> <<S1>>, nonce |-> 0, v |-> 1],
     [eth |-> FALSE, sig |-> "signersErr", signers |-> <<S1>>, nonce |-> 0, v |-> 1]}

Txs == EthTxs \cup CosmosTxs

\* evmtypes.GetAsEthTx(tx) != nil
GetAsEthTx(tx) == tx.eth

\* coretypes.GetSender(ethTx)
GetSender(tx) == BytesToAddress(tx.signers[1])

ZeroHash == 0

\* ethTx.Hash(): distinct transactions have distinct non-zero hashes
Hash(tx) ==
    1 + (tx.v - 1) + MaxVariant * (tx.nonce + (MaxNonce + 1) * (tx.signers[1][1] - 1))

----------------------------------------------------------------------------
(* lib/errors *)

Wrap(err, msg) == <<msg, err>>

----------------------------------------------------------------------------
(* The underlying sdk PriorityNonceMempool, keyed by (sender, nonce) *)

PoolKey(tx) == <<tx.signers[1], tx.nonce>>

ErrTxNotFound == "tx not found in mempool"
ErrMempoolRejected == "mempool rejected tx"

PoolInsert(p, tx) ==
    [k \in (DOMAIN p) \cup {PoolKey(tx)} |-> IF k = PoolKey(tx) THEN tx ELSE p[k]]

PoolRemove(p, tx) ==
    IF PoolKey(tx) \in DOMAIN p
    THEN [p |-> [k \in (DOMAIN p) \ {PoolKey(tx)} |-> p[k]], err |-> NoErr]
    ELSE [p |-> p, err |-> ErrTxNotFound]

----------------------------------------------------------------------------
(* EthTxPool *)

\* a check that looks at the first signer only
AnyReserved_FirstOnly(signers, i) ==
    Len(signers) >= 1 /\ BytesToAddress(signers[1]) = ReservedAddress

RECURSIVE AnyReserved(_, _)
AnyReserved(signers, i) ==
    IF i > Len(signers) THEN FALSE
    ELSE IF BytesToAddress(signers[i]) = ReservedAddress THEN TRUE
    ELSE AnyReserved(signers, i + 1)

checkTxSigner(tx) ==
    IF tx.sig = "notSigVerifiable" THEN "invalid transaction type"
    ELSE IF tx.sig = "signersErr" THEN Wrap("signers error", "failed to get signers")
    ELSE IF AnyReserved(tx.signers, 1)
    THEN "reserved account not allowed to send tx via mempool"
    ELSE NoErr

\* a delete that leaves the map as it is
MapDelete_Keep(m, k) == m

\* delete(m, k) on a Go map held as a function
MapDelete(m, k) == [x \in (DOMAIN m) \ {k} |-> m[x]]

MapPut(m, k, v) == [x \in (DOMAIN m) \cup {k} |-> IF x = k THEN v ELSE m[x]]

\* m[k] of a Go map: the zero value when the key is absent
HashAt(m, k) == IF k \in DOMAIN m THEN m[k] ELSE ZeroHash

\* the calls an operation makes to its collaborators, as recorded in pret.trace
BaseInsert(err) == [call |-> "PriorityNonceMempool.Insert", err |-> err]
BaseRemove(err) == [call |-> "PriorityNonceMempool.Remove", err |-> err]
GetNonce(sender) == [call |-> "nr.GetNonce", sender |-> sender]

\* an Insert that records an Ethereum transaction in the index and the cache
\* before it asks the underlying pool
Insert_IndexFirst(tx, accept) ==
    LET signerErr == checkTxSigner(tx)
        pool1 == PoolInsert(pool, tx)
        sender == GetSender(tx)
        nonce == tx.nonce
        removed == PoolRemove(pool1, tx)
        cache1 == IF sender \in DOMAIN nonceToHash
                  THEN MapDelete(ethTxCache, HashAt(nonceToHash[sender], nonce))
                  ELSE ethTxCache
        newHash == Hash(tx)
        index1 == IF sender \in DOMAIN nonceToHash
                  THEN nonceToHash
                  ELSE MapPut(nonceToHash, sender, <<>>)
    IN  /\ UNCHANGED <<overlayVars, lockVars, genesisVars>>
        /\ IF signerErr # NoErr
           THEN /\ pret' = [op |-> "Insert", tx |-> tx, err |-> signerErr, trace |-> <<>>]
                /\ UNCHANGED <<pool, nonceToHash, ethTxCache, sdbNonce>>
           ELSE IF ~accept
           THEN /\ pret' = [op |-> "Insert", tx |-> tx, err |-> ErrMempoolRejected,
                            trace |-> <<BaseInsert(ErrMempoolRejected)>>]
                /\ nonceToHash' =
                     IF GetAsEthTx(tx)
                     THEN [index1 EXCEPT ![sender] = MapPut(@, nonce, newHash)]
                     ELSE nonceToHash
                /\ ethTxCache' =
                     IF GetAsEthTx(tx) THEN MapPut(cache1, newHash, tx) ELSE ethTxCache
                /\ UNCHANGED <<pool, sdbNonce>>
           ELSE IF ~GetAsEthTx(tx)
           THEN /\ pool' = pool1
                /\ pret' = [op |-> "Insert", tx |-> tx, err |-> NoErr,
                            trace |-> <<BaseInsert(NoErr)>>]
                /\ UNCHANGED <<nonceToHash, ethTxCache, sdbNonce>>
           ELSE IF sdbNonce[sender] > nonce
           THEN /\ pool' = removed.p
                /\ pret' = [op |-> "Insert", tx |-> tx,
                            err |-> Wrap(removed.err, "nonce too low"),
                            trace |-> <<BaseInsert(NoErr), GetNonce(sender),
                                        BaseRemove(removed.err)>>]
                /\ UNCHANGED <<nonceToHash, ethTxCache, sdbNonce>>
           ELSE /\ pool' = pool1
                /\ nonceToHash' =
                     [index1 EXCEPT ![sender] = MapPut(@, nonce, newHash)]
                /\ ethTxCache' = MapPut(cache1, newHash, tx)
                /\ pret' = [op |-> "Insert", tx |-> tx, err |-> NoErr,
                            trace |-> <<BaseInsert(NoErr), GetNonce(sender)>>]
                /\ UNCHANGED sdbNonce

Insert(tx, accept) ==
    LET signerErr == checkTxSigner(tx)
        pool1 == PoolInsert(pool, tx)
        sender == GetSender(tx)
        nonce == tx.nonce
        removed == PoolRemove(pool1, tx)
        cache1 == IF sender \in DOMAIN nonceToHash
                  THEN MapDelete(ethTxCache, HashAt(nonceToHash[sender], nonce))
                  ELSE ethTxCache
        newHash == Hash(tx)
        index1 == IF sender \in DOMAIN nonceToHash
                  THEN nonceToHash
                  ELSE MapPut(nonceToHash, sender, <<>>)
    IN  /\ UNCHANGED <<overlayVars, lockVars, genesisVars>>
        /\ IF signerErr # NoErr
           THEN /\ pret' = [op |-> "Insert", tx |-> tx, err |-> signerErr, trace |-> <<>>]
                /\ UNCHANGED <<pool, nonceToHash, ethTxCache, sdbNonce>>
           ELSE IF ~accept
           THEN /\ pret' = [op |-> "Insert", tx |-> tx, err |-> ErrMempoolRejected,
                            trace |-> <<BaseInsert(ErrMempoolRejected)>>]
                /\ UNCHANGED <<pool, nonceToHash, ethTxCache, sdbNonce>>
           ELSE IF ~GetAsEthTx(tx)
           THEN /\ pool' = pool1
                /\ pret' = [op |-> "Insert", tx |-> tx, err |-> NoErr,
                            trace |-> <<BaseInsert(NoErr)>>]
                /\ UNCHANGED <<nonceToHash, ethTxCache, sdbNonce>>
           ELSE IF sdbNonce[sender] > nonce
           THEN /\ pool' = removed.p
                /\ pret' = [op |-> "Insert", tx |-> tx,
                            err |-> Wrap(removed.err, "nonce too low"),
                            trace |-> <<BaseInsert(NoErr), GetNonce(sender),
                                        BaseRemove(removed.err)>>]
                /\ UNCHANGED <<nonceToHash, ethTxCache, sdbNonce>>
           ELSE /\ pool' = pool1
                /\ nonceToHash' =
                     [index1 EXCEPT ![sender] = MapPut(@, nonce, newHash)]
                /\ ethTxCache' = MapPut(cache1, newHash, tx)
                /\ pret' = [op |-> "Insert", tx |-> tx, err |-> NoErr,
                            trace |-> <<BaseInsert(NoErr), GetNonce(sender)>>]
                /\ UNCHANGED sdbNonce

\* a Remove that deletes the index entry only when it points at the hash of tx
Remove_IfCurrent(tx) ==
    LET removed == PoolRemove(pool, tx)
        sender == GetSender(tx)
    IN  /\ UNCHANGED <<overlayVars, lockVars, genesisVars>>
        /\ IF removed.err # NoErr
           THEN /\ pret' = [op |-> "Remove", tx |-> tx, err |-> removed.err,
                            trace |-> <<BaseRemove(removed.err)>>]
                /\ UNCHANGED <<pool, nonceToHash, ethTxCache, sdbNonce>>
           ELSE /\ pool' = removed.p
                /\ ethTxCache' =
                     IF GetAsEthTx(tx) THEN MapDelete(ethTxCache, Hash(tx)) ELSE ethTxCache
                /\ nonceToHash' =
                     IF /\ GetAsEthTx(tx)
                        /\ sender \in DOMAIN nonceToHash
                        /\ HashAt(nonceToHash[sender], tx.nonce) = Hash(tx)
                     THEN [nonceToHash EXCEPT ![sender] = MapDelete(@, tx.nonce)]
                     ELSE nonceToHash
                /\ pret' = [op |-> "Remove", tx |-> tx, err |-> NoErr,
                            trace |-> <<BaseRemove(NoErr)>>]
                /\ UNCHANGED sdbNonce


\* a Remove that cleans the index and the cache for every kind of transaction
Remove_AnyTx(tx) ==
    LET removed == PoolRemove(pool, tx)
        sender == GetSender(tx)
    IN  /\ UNCHANGED <<overlayVars, lockVars, genesisVars>>
        /\ IF removed.err # NoErr
           THEN /\ pret' = [op |-> "Remove", tx |-> tx, err |-> removed.err,
                            trace |-> <<BaseRemove(removed.err)>>]
                /\ UNCHANGED <<pool, nonceToHash, ethTxCache, sdbNonce>>
           ELSE /\ pool' = removed.p
                /\ ethTxCache' = MapDelete(ethTxCache, Hash(tx))
                /\ nonceToHash' =
                     IF sender \in DOMAIN nonceToHash
                     THEN [nonceToHash EXCEPT ![sender] = MapDelete(@, tx.nonce)]
                     ELSE nonceToHash
                /\ pret' = [op |-> "Remove", tx |-> tx, err |-> NoErr,
                            trace |-> <<BaseRemove(NoErr)>>]
                /\ UNCHANGED sdbNonce


Remove(tx) ==
    LET removed == PoolRemove(pool, tx)
        sender == GetSender(tx)
    IN  /\ UNCHANGED <<overlayVars, lockVars, genesisVars>>
        /\ IF removed.err # NoErr
           THEN /\ pret' = [op |-> "Remove", tx |-> tx, err |-> removed.err,
                            trace |-> <<BaseRemove(removed.err)>>]
                /\ UNCHANGED <<pool, nonceToHash, ethTxCache, sdbNonce>>
           ELSE /\ pool' = removed.p
                /\ ethTxCache' =
                     IF GetAsEthTx(tx) THEN MapDelete(ethTxCache, Hash(tx)) ELSE ethTxCache
                /\ nonceToHash' =
                     IF GetAsEthTx(tx) /\ sender \in DOMAIN nonceToHash
                     THEN [nonceToHash EXCEPT ![sender] = MapDelete(@, tx.nonce)]
                     ELSE nonceToHash
                /\ pret' = [op |-> "Remove", tx |-> tx, err |-> NoErr,
                            trace |-> <<BaseRemove(NoErr)>>]
                /\ UNCHANGED sdbNonce

\* the statedb nonce of a sender grows as its transactions are executed
AdvanceNonce(sender) ==
    /\ sdbNonce[sender] <= MaxNonce
    /\ sdbNonce' = [sdbNonce EXCEPT ![sender] = @ + 1]
    /\ UNCHANGED <<pool, nonceToHash, ethTxCache, pret>>
    /\ UNCHANGED <<overlayVars, lockVars, genesisVars>>

----------------------------------------------------------------------------
(* Concurrent callers of EthTxPool: Insert and Remove statement by statement *)

MaxCallers == 2

Callers == 1 .. MaxCallers

\* the transactions the concurrent callers submit
LockTxs ==
    {tx \in EthTxs : tx.nonce = 0 /\ GetSender(tx) # S2}
    \cup {[eth |-> FALSE, sig |-> "ok", signers |-> <<S1>>, nonce |-> 0, v |-> 1]}

\* a caller that is not inside Insert or Remove
Idle == [op |-> "none"]

\* what the lock protects
Shared == [pool |-> pool, nonceToHash |-> nonceToHash, ethTxCache |-> ethTxCache]

\* Insert as one atomic step on the pool s; sdb is what nr.GetNonce reports
SeqInsert(s, tx, accept, sdb) ==
    LET sender == GetSender(tx)
        nonce == tx.nonce
        pool1 == PoolInsert(s.pool, tx)
        removed == PoolRemove(pool1, tx)
        cache1 == IF sender \in DOMAIN s.nonceToHash
                  THEN MapDelete(s.ethTxCache, HashAt(s.nonceToHash[sender], nonce))
                  ELSE s.ethTxCache
        index1 == IF sender \in DOMAIN s.nonceToHash
                  THEN s.nonceToHash
                  ELSE MapPut(s.nonceToHash, sender, <<>>)
    IN  IF checkTxSigner(tx) # NoErr THEN [s |-> s, err |-> checkTxSigner(tx)]
        ELSE IF ~accept THEN [s |-> s, err |-> ErrMempoolRejected]
        ELSE IF ~GetAsEthTx(tx) THEN [s |-> [s EXCEPT !.pool = pool1], err |-> NoErr]
        ELSE IF sdb > nonce
        THEN [s |-> [s EXCEPT !.pool = removed.p],
              err |-> Wrap(removed.err, "nonce too low")]
        ELSE [s |-> [pool |-> pool1,
                     nonceToHash |->
                        [index1 EXCEPT ![sender] = MapPut(@, nonce, Hash(tx))],
                     ethTxCache |-> MapPut(cache1, Hash(tx), tx)],
              err |-> NoErr]

\* Remove as one atomic step on the pool s
SeqRemove(s, tx) ==
    LET removed == PoolRemove(s.pool, tx)
        sender == GetSender(tx)
    IN  IF removed.err # NoErr THEN [s |-> s, err |-> removed.err]
        ELSE IF ~GetAsEthTx(tx) THEN [s |-> [s EXCEPT !.pool = removed.p], err |-> NoErr]
        ELSE [s |-> [pool |-> removed.p,
                     nonceToHash |->
                        IF sender \in DOMAIN s.nonceToHash
                        THEN [s.nonceToHash EXCEPT ![sender] = MapDelete(@, tx.nonce)]
                        ELSE s.nonceToHash,
                     ethTxCache |-> MapDelete(s.ethTxCache, Hash(tx))],
              err |-> NoErr]

\* the error caller t returns: job.err, wrapped with the message job.wrap if any
Returned(j) == IF j.wrap = "" THEN j.err ELSE Wrap(j.err, j.wrap)

\* caller t moves to the statement at, with err the error it will return
Goto(t, at, err) ==
    /\ pc' = [pc EXCEPT ![t] = at]
    /\ job' = [job EXCEPT ![t].err = err]

\* caller t calls Insert(tx) or Remove(tx) and arrives at etp.mu.Lock()
Enter(t, op, tx) ==
    /\ pc[t] = "idle"
    /\ pc' = [pc EXCEPT ![t] = "Lock"]
    /\ job' = [job EXCEPT ![t] =
                 [op |-> op, tx |-> tx, accept |-> TRUE, sdb |-> 0, err |-> NoErr,
                  wrap |-> ""]]
    /\ UNCHANGED <<mu, entry, pool, nonceToHash, ethTxCache, sdbNonce, pret>>
    /\ UNCHANGED <<overlayVars, genesisVars>>

\* a Lock that does not wait for the holder
Lock_NoWait(t) ==
    /\ pc[t] = "Lock"
    /\ mu' = t
    /\ entry' = Shared
    /\ pc' = [pc EXCEPT ![t] =
                 IF job[t].op = "Insert" THEN "checkTxSigner" ELSE "baseRemove"]
    /\ UNCHANGED <<job, pool, nonceToHash, ethTxCache, sdbNonce, pret>>
    /\ UNCHANGED <<overlayVars, genesisVars>>

\* etp.mu.Lock(): blocks while another caller holds the lock
Lock(t) ==
    /\ pc[t] = "Lock"
    /\ mu = 0
    /\ mu' = t
    /\ entry' = Shared
    /\ pc' = [pc EXCEPT ![t] =
                 IF job[t].op = "Insert" THEN "checkTxSigner" ELSE "baseRemove"]
    /\ UNCHANGED <<job, pool, nonceToHash, ethTxCache, sdbNonce, pret>>
    /\ UNCHANGED <<overlayVars, genesisVars>>

\* Insert: if err := checkTxSigner(tx); err != nil { return err }
InsCheckSigner(t) ==
    /\ pc[t] = "checkTxSigner"
    /\ IF checkTxSigner(job[t].tx) # NoErr
       THEN Goto(t, "Unlock", checkTxSigner(job[t].tx))
       ELSE Goto(t, "baseInsert", NoErr)
    /\ UNCHANGED <<mu, entry, pool, nonceToHash, ethTxCache, sdbNonce, pret>>
    /\ UNCHANGED <<overlayVars, genesisVars>>

\* Insert: the underlying pool's Insert, then GetAsEthTx
InsBaseInsert(t, accept) ==
    /\ pc[t] = "baseInsert"
    /\ IF ~accept
       THEN /\ pc' = [pc EXCEPT ![t] = "Unlock"]
            /\ job' = [job EXCEPT ![t].accept = FALSE, ![t].err = ErrMempoolRejected]
            /\ UNCHANGED pool
       ELSE /\ pool' = PoolInsert(pool, job[t].tx)
            /\ Goto(t, IF GetAsEthTx(job[t].tx) THEN "GetNonce" ELSE "Unlock", NoErr)
    /\ UNCHANGED <<mu, entry, nonceToHash, ethTxCache, sdbNonce, pret>>
    /\ UNCHANGED <<overlayVars, genesisVars>>

\* Insert: sdbNonce := etp.nr.GetNonce(sender); sdbNonce > nonce
InsGetNonce(t) ==
    LET sender == GetSender(job[t].tx)
        sdb == IF sender \in DOMAIN sdbNonce THEN sdbNonce[sender] ELSE 0
    IN  /\ pc[t] = "GetNonce"
        /\ pc' = [pc EXCEPT ![t] = IF sdb > job[t].tx.nonce THEN "nonceTooLow" ELSE "evict"]
        /\ job' = [job EXCEPT ![t].sdb = sdb]
        /\ UNCHANGED <<mu, entry, pool, nonceToHash, ethTxCache, sdbNonce, pret>>
        /\ UNCHANGED <<overlayVars, genesisVars>>

\* a nonce-too-low path that removes through etp.Remove, which locks etp.mu
InsNonceTooLow_ViaRemove(t) ==
    /\ pc[t] = "nonceTooLow"
    /\ pc' = [pc EXCEPT ![t] = "Lock"]
    /\ job' = [job EXCEPT ![t].op = "Remove"]
    /\ UNCHANGED <<mu, entry, pool, nonceToHash, ethTxCache, sdbNonce, pret>>
    /\ UNCHANGED <<overlayVars, genesisVars>>

\* Insert: return Wrap(etp.PriorityNonceMempool.Remove(tx), "nonce too low")
InsNonceTooLow(t) ==
    LET removed == PoolRemove(pool, job[t].tx)
    IN  /\ pc[t] = "nonceTooLow"
        /\ pool' = removed.p
        /\ pc' = [pc EXCEPT ![t] = "Unlock"]
        /\ job' = [job EXCEPT ![t].err = removed.err, ![t].wrap = "nonce too low"]
        /\ UNCHANGED <<mu, entry, nonceToHash, ethTxCache, sdbNonce, pret>>
        /\ UNCHANGED <<overlayVars, genesisVars>>

\* Insert: delete the old hash of (sender, nonce) from the cache
InsEvict(t) ==
    LET sender == GetSender(job[t].tx)
    IN  /\ pc[t] = "evict"
        /\ ethTxCache' =
             IF sender \in DOMAIN nonceToHash
             THEN MapDelete(ethTxCache, HashAt(nonceToHash[sender], job[t].tx.nonce))
             ELSE ethTxCache
        /\ Goto(t, "record", NoErr)
        /\ UNCHANGED <<mu, entry, pool, nonceToHash, sdbNonce, pret>>
        /\ UNCHANGED <<overlayVars, genesisVars>>

\* Insert: add the new hash to nonceToHash and ethTxCache
InsRecord(t) ==
    LET tx == job[t].tx
        sender == GetSender(tx)
        index1 == IF sender \in DOMAIN nonceToHash
                  THEN nonceToHash
                  ELSE MapPut(nonceToHash, sender, <<>>)
    IN  /\ pc[t] = "record"
        /\ nonceToHash' = [index1 EXCEPT ![sender] = MapPut(@, tx.nonce, Hash(tx))]
        /\ ethTxCache' = MapPut(ethTxCache, Hash(tx), tx)
        /\ Goto(t, "Unlock", NoErr)
        /\ UNCHANGED <<mu, entry, pool, sdbNonce, pret>>
        /\ UNCHANGED <<overlayVars, genesisVars>>

\* Remove: the underlying pool's Remove, then GetAsEthTx
RemBaseRemove(t) ==
    LET removed == PoolRemove(pool, job[t].tx)
    IN  /\ pc[t] = "baseRemove"
        /\ pool' = removed.p
        /\ IF removed.err # NoErr
           THEN Goto(t, "Unlock", removed.err)
           ELSE Goto(t, IF GetAsEthTx(job[t].tx) THEN "deleteCache" ELSE "Unlock", NoErr)
        /\ UNCHANGED <<mu, entry, nonceToHash, ethTxCache, sdbNonce, pret>>
        /\ UNCHANGED <<overlayVars, genesisVars>>

\* Remove: delete(etp.ethTxCache, ethTx.Hash())
RemDeleteCache(t) ==
    /\ pc[t] = "deleteCache"
    /\ ethTxCache' = MapDelete(ethTxCache, Hash(job[t].tx))
    /\ Goto(t, "deleteIndex", NoErr)
    /\ UNCHANGED <<mu, entry, pool, nonceToHash, sdbNonce, pret>>
    /\ UNCHANGED <<overlayVars, genesisVars>>

\* Remove: delete(etp.nonceToHash[sender], ethTx.Nonce())
RemDeleteIndex(t) ==
    LET sender == GetSender(job[t].tx)
    IN  /\ pc[t] = "deleteIndex"
        /\ nonceToHash' =
             IF sender \in DOMAIN nonceToHash
             THEN [nonceToHash EXCEPT ![sender] = MapDelete(@, job[t].tx.nonce)]
             ELSE nonceToHash
        /\ Goto(t, "Unlock", NoErr)
        /\ UNCHANGED <<mu, entry, pool, ethTxCache, sdbNonce, pret>>
        /\ UNCHANGED <<overlayVars, genesisVars>>

\* defer etp.mu.Unlock(): the caller returns Returned(job[t])
Unlock(t) ==
    /\ pc[t] = "Unlock"
    /\ mu' = 0
    /\ entry' = Shared
    /\ pc' = [pc EXCEPT ![t] = "idle"]
    /\ job' = [job EXCEPT ![t] = Idle]
    /\ UNCHANGED <<pool, nonceToHash, ethTxCache, sdbNonce, pret>>
    /\ UNCHANGED <<overlayVars, genesisVars>>

\* the statedb nonce grows while callers are inside Insert or Remove; the
\* callers submit nonce 0 only, which the first advance makes too low
StateDBAdvance ==
    /\ sdbNonce[S1] = 0
    /\ sdbNonce' = [sdbNonce EXCEPT ![S1] = @ + 1]
    /\ UNCHANGED <<pool, nonceToHash, ethTxCache, pret>>
    /\ UNCHANGED lockVars
    /\ UNCHANGED <<overlayVars, genesisVars>>

----------------------------------------------------------------------------
(* The account/genesis bridge of the state plugin (plugins/state/genesis.go) *)

\* core.ReservedAddress as an account of the store
ReservedAccount == "reserved"

NilCode == ""
Codes == {NilCode, "code"}

\* account.Storage: nil or empty, or one slot
Storages == {<<>>, [k \in {"slot"} |-> "value"]}

\* core.GenesisAccount
GenesisAccount == [Balance : Values, Code : Codes, Storage : Storages, Nonce : {0, 1}]

\* core.GenesisAlloc: a map from addresses to genesis accounts
GenesisAllocs == UNION {[S -> GenesisAccount] : S \in SUBSET Accounts}

\* the orders in which a Go map or a store iterator can yield the elements of S
Orders(S) ==
    {o \in [1 .. Cardinality(S) -> S] : \A a \in S : \E i \in DOMAIN o : o[i] = a}

\* one call of a method of the plugin; addr is "" for Reset and Finalize
PluginCall(r, call, addr) ==
    [r EXCEPT !.calls = Append(@, [call |-> call, addr |-> addr])]

\* p.Reset(ctx)
Reset(r) == PluginCall(r, "Reset", "")

\* p.Finalize()
PluginFinalize(r) == PluginCall(r, "Finalize", "")

\* p.CreateAccount(address): a new account without code, storage or nonce
CreateAccount(r, address) ==
    PluginCall([r EXCEPT !.store =
                  [a \in (DOMAIN r.store) \cup {address} |->
                      IF a = address
                      THEN [code |-> NilCode, storage |-> <<>>, nonce |-> 0]
                      ELSE r.store[a]]],
               "CreateAccount", address)

\* p.SetCode(address, code)
SetCode(r, address, code) ==
    PluginCall([r EXCEPT !.store[address].code = code], "SetCode", address)

\* p.SetState(address, k, v) for every slot of the storage st
RECURSIVE SetStates(_, _, _)
SetStates(r, address, st) ==
    IF DOMAIN st = {} THEN r
    ELSE LET k == CHOOSE x \in DOMAIN st : TRUE
         IN  SetStates(
                PluginCall([r EXCEPT !.store[address].storage =
                              [x \in (DOMAIN @) \cup {k} |-> IF x = k THEN st[k] ELSE @[x]]],
                           "SetState", address),
                address, [x \in (DOMAIN st) \ {k} |-> st[x]])

\* p.SetNonce(address, nonce)
SetNonce(r, address, nonce) ==
    PluginCall([r EXCEPT !.store[address].nonce = nonce], "SetNonce", address)

\* the body of InitGenesis's loop for one genesis account
InitAccount(r, address, account) ==
    LET r1 == CreateAccount(r, address)
        r2 == IF account.Code # NilCode THEN SetCode(r1, address, account.Code) ELSE r1
        r3 == SetStates(r2, address, account.Storage)
    IN  IF account.Nonce # 0 THEN SetNonce(r3, address, account.Nonce) ELSE r3

\* for address, account := range ethGen.Alloc, in the order o
RECURSIVE InitAccounts(_, _, _, _)
InitAccounts(r, alloc, o, i) ==
    IF i > Len(o) THEN r
    ELSE InitAccounts(InitAccount(r, o[i], alloc[o[i]]), alloc, o, i + 1)

\* InitGenesis runs once, on the empty store of a new chain
InitGenesis(alloc, o) ==
    LET r0 == [store |-> accountStore, calls |-> <<>>]
        r == PluginFinalize(
               InitAccounts(CreateAccount(Reset(r0), ReservedAccount), alloc, o, 1))
    IN  /\ gret.op = "NewPlugin"
        /\ accountStore' = r.store
        /\ pluginCalls' = r.calls
        /\ ethGen' = alloc
        /\ gret' = [op |-> "InitGenesis"]
        /\ UNCHANGED <<overlayVars, poolVars, lockVars>>

\* the accounts IterateState visits: those with a storage slot
WithState(store) == {a \in DOMAIN store : store[a].storage # <<>>}

\* the accounts IterateCode visits: those with code
WithCode(store) == {a \in DOMAIN store : store[a].code # NilCode}

\* the callback of IterateState for the slots of one account
ExportState(r, address) ==
    LET old == IF address \in DOMAIN r.alloc
               THEN r.alloc[address]
               ELSE [Code |-> NilCode, Storage |-> <<>>, Balance |-> 0, Nonce |-> 0]
        account == [Code |-> r.store[address].code,
                    Storage |-> r.store[address].storage,
                    Balance |-> Balance(states, ledger, address),
                    Nonce |-> r.store[address].nonce]
        r1 == PluginCall(PluginCall(PluginCall(r, "GetCode", address),
                                    "GetBalance", address), "GetNonce", address)
    IN  [r1 EXCEPT !.alloc =
            [a \in (DOMAIN r.alloc) \cup {address} |->
                IF a = address THEN account ELSE r.alloc[a]]]

\* the callback of IterateCode for one account: a Balance that is still nil
\* becomes big.NewInt(0)
ExportCode(r, address) ==
    LET account == [Code |-> r.store[address].code,
                    Storage |-> IF address \in DOMAIN r.alloc
                                THEN r.alloc[address].Storage ELSE <<>>,
                    Balance |-> IF address \in DOMAIN r.alloc
                                THEN r.alloc[address].Balance ELSE 0,
                    Nonce |-> r.store[address].nonce]
        r1 == PluginCall(PluginCall(r, "GetCode", address), "GetNonce", address)
    IN  [r1 EXCEPT !.alloc =
            [a \in (DOMAIN r.alloc) \cup {address} |->
                IF a = address THEN account ELSE r.alloc[a]]]

\* p.IterateState(...) over the accounts in the order o
RECURSIVE IterateState(_, _, _)
IterateState(r, o, i) ==
    IF i > Len(o) THEN r ELSE IterateState(ExportState(r, o[i]), o, i + 1)

\* p.IterateCode(...) over the accounts in the order o
RECURSIVE IterateCode(_, _, _)
IterateCode(r, o, i) ==
    IF i > Len(o) THEN r ELSE IterateCode(ExportCode(r, o[i]), o, i + 1)

\* ExportGenesis: p.GetBalance goes through the Manager, which creates the
\* base state on first use
ExportGenesis(os, oc) ==
    LET r0 == [store |-> accountStore, calls |-> <<>>, alloc |-> <<>>]
        r == IterateCode(IterateState(Reset(r0), os, 1), oc, 1)
        read == WithState(accountStore) # {}
    IN  /\ pluginCalls' = r.calls
        /\ ethGen' = r.alloc
        /\ gret' = [op |-> "ExportGenesis"]
        /\ states' = IF read THEN getCurState(states) ELSE states
        /\ snapView' = IF read THEN TrackBase(states) ELSE snapView
        /\ UNCHANGED <<accountStore, ledger, moduleBal, supply, calls, ret, commits,
                       recorded>>
        /\ UNCHANGED <<poolVars, lockVars>>

----------------------------------------------------------------------------

OverlayInit ==
    /\ ledger = InitLedger
    /\ moduleBal = 0
    /\ supply = ledger["a1"] + ledger["a2"]
    /\ states = <<>>
    /\ calls = <<>>
    /\ ret = [op |-> "NewManager"]
    /\ snapView = <<>>
    /\ commits = 0
    /\ recorded = 0

PoolInit ==
    /\ pool = <<>>
    /\ nonceToHash = <<>>
    /\ ethTxCache = <<>>
    /\ sdbNonce = [s \in EthSenders |-> 0]
    /\ pret = [op |-> "NewEthTxPool"]

LockInit ==
    /\ mu = 0
    /\ pc = [t \in Callers |-> "idle"]
    /\ job = [t \in Callers |-> Idle]
    /\ entry = Shared

GenesisInit ==
    /\ accountStore = <<>>
    /\ ethGen = <<>>
    /\ pluginCalls = <<>>
    /\ gret = [op |-> "NewPlugin"]

Init == OverlayInit /\ PoolInit /\ LockInit /\ GenesisInit


OverlayNext ==
    \/ \E addr \in Accounts : GetBalance(addr)
    \/ \E addr \in Accounts, newBalance \in Values : SetBalance(addr, newBalance)
    \/ Snapshot
    \/ \E id \in 1 .. MaxFrames : RevertToSnapshot(id)
    \/ Finalize
    \/ \E failAt \in 0 .. 2 * MaxChanges : Commit(failAt)

PoolNext ==
    \/ \E tx \in Txs, accept \in BOOLEAN : Insert(tx, accept)
    \/ \E tx \in Txs : Remove(tx)
    \/ \E sender \in EthSenders : AdvanceNonce(sender)

\* the balance overlay of one execution context
Spec == Init /\ [][OverlayNext]_vars

\* the transaction pool
PoolSpec == Init /\ [][PoolNext]_vars

LockNext ==
    \/ \E t \in Callers, op \in {"Insert", "Remove"}, tx \in LockTxs : Enter(t, op, tx)
    \/ \E t \in Callers : Lock(t)
    \/ \E t \in Callers : InsCheckSigner(t)
    \/ \E t \in Callers, accept \in BOOLEAN : InsBaseInsert(t, accept)
    \/ \E t \in Callers : InsGetNonce(t)
    \/ \E t \in Callers : InsNonceTooLow(t)
    \/ \E t \in Callers : InsEvict(t)
    \/ \E t \in Callers : InsRecord(t)
    \/ \E t \in Callers : RemBaseRemove(t)
    \/ \E t \in Callers : RemDeleteCache(t)
    \/ \E t \in Callers : RemDeleteIndex(t)
    \/ \E t \in Callers : Unlock(t)
    \/ StateDBAdvance

GenesisNext ==
    \/ \E alloc \in GenesisAllocs : \E o \in Orders(DOMAIN alloc) : InitGenesis(alloc, o)
    \/ \E os \in Orders(WithState(accountStore)), oc \in Orders(WithCode(accountStore)) :
          ExportGenesis(os, oc)

\* the genesis pass of the state plugin
GenesisSpec == Init /\ [][GenesisNext]_vars

\* the transaction pool under concurrent callers
LockSpec == Init /\ [][LockNext]_vars

\* the steps of caller t between etp.mu.Lock() and its return
Proceed(t) ==
    \/ InsCheckSigner(t)
    \/ \E accept \in BOOLEAN : InsBaseInsert(t, accept)
    \/ InsGetNonce(t)
    \/ InsNonceTooLow(t)
    \/ InsEvict(t)
    \/ InsRecord(t)
    \/ RemBaseRemove(t)
    \/ RemDeleteCache(t)
    \/ RemDeleteIndex(t)
    \/ Unlock(t)

\* the transactions of the callers whose termination is checked: an Ethereum
\* transaction that checkTxSigner rejects, one that takes, depending on the
\* underlying pool and on the statedb nonce, each other path of Insert and
\* Remove, and a transaction of another kind
FairTxs == {tx \in LockTxs : tx.v = 1}

LockFairNext ==
    \/ \E t \in Callers, op \in {"Insert", "Remove"}, tx \in FairTxs : Enter(t, op, tx)
    \/ \E t \in Callers : Lock(t)
    \/ \E t \in Callers : InsCheckSigner(t)
    \/ \E t \in Callers, accept \in BOOLEAN : InsBaseInsert(t, accept)
    \/ \E t \in Callers : InsGetNonce(t)
    \/ \E t \in Callers : InsNonceTooLow(t)
    \/ \E t \in Callers : InsEvict(t)
    \/ \E t \in Callers : InsRecord(t)
    \/ \E t \in Callers : RemBaseRemove(t)
    \/ \E t \in Callers : RemDeleteCache(t)
    \/ \E t \in Callers : RemDeleteIndex(t)
    \/ \E t \in Callers : Unlock(t)
    \/ StateDBAdvance

\* fair scheduling: a caller that holds the lock keeps running and the calls
\* to the underlying pool terminate; a caller that waits in etp.mu.Lock() gets
\* the lock when it is released again and again (sync.Mutex hands the lock to
\* a waiter that was passed over). Every step of Proceed and Lock changes pc.
LockFairSpec ==
    /\ Init
    /\ [][LockFairNext]_vars
    /\ \A t \in Callers : WF_<<pc, mu>>(Proceed(t)) /\ SF_<<pc, mu>>(Lock(t))


----------------------------------------------------------------------------
(* Properties of the balance overlay *)

\* all balanceChanges of the stack, bottom frame first, call order within a frame
RECURSIVE Journal(_, _)
Journal(st, i) ==
    IF i > Len(st) THEN <<>> ELSE st[i].balanceChanges \o Journal(st, i + 1)

\* the keeper calls one recorded delta stands for
CallsOf(change) ==
    IF change.Delta > 0
    THEN <<[op |-> "MintCoins", amt |-> change.Delta],
           [op |-> "SendCoinsFromModuleToAccount", addr |-> change.Addr,
            amt |-> change.Delta]>>
    ELSE IF change.Delta < 0
    THEN <<[op |-> "SendCoinsFromAccountToModule", addr |-> change.Addr,
            amt |-> -change.Delta],
           [op |-> "BurnCoins", amt |-> -change.Delta]>>
    ELSE <<>>

RECURSIVE Replay(_)
Replay(journal) ==
    IF journal = <<>> THEN <<>> ELSE CallsOf(Head(journal)) \o Replay(Tail(journal))

\* the bank after the calls cs, all of them successful
RECURSIVE After(_, _)
After(b, cs) ==
    IF cs = <<>> THEN b ELSE After(Keeper(b, Head(cs), FALSE).b, Tail(cs))

\* sum of the deltas of account a recorded in frames 1 .. i
RECURSIVE SumSeq(_, _)
SumSeq(changes, a) ==
    IF changes = <<>> THEN 0
    ELSE (IF Head(changes).Addr = a THEN Head(changes).Delta ELSE 0)
         + SumSeq(Tail(changes), a)

SumDeltas(st, i, a) == SumSeq(Journal(SubSeq(st, 1, i), 1), a)

\* C1: RevertToSnapshot(id) makes GetBalance return, for every account, what it
\* returned right before the Snapshot() that gave id, when the ledger was not
\* touched in between.
C1_RevertRestoresBalances ==
    [][(/\ ret'.op = "RevertToSnapshot"
        /\ Len(states') < Len(states)
        /\ snapView[ret'.id + 1].clean)
        => \A a \in Accounts :
             Balance(states', ledger', a) = snapView[ret'.id + 1].bal[a]]_vars

\* a revert that discarded balance changes recorded after the snapshot
C1_Witness ==
    /\ ret.op = "RevertToSnapshot"
    /\ ret.discarded > 0
    /\ commits = 0

\* C2: a successful first Commit leaves every ledger balance at the final
\* balance the overlay showed for the account (unchanged without a dirty entry).
C2_CommitNetChange ==
    [][(commits = 0 /\ commits' = 1 /\ ret'.err = NoErr)
        => \A a \in Accounts :
             /\ ledger'[a] - ledger[a] = Balance(states, ledger, a) - ledger[a]
             /\ (Len(states) = 0 \/ a \notin DOMAIN Peek(getCurState(states)).dirtyBalances)
                   => ledger'[a] = ledger[a]]_vars

\* a successful Commit of a journal spread over several frames
C2_Witness ==
    /\ ret.op = "Commit"
    /\ ret.err = NoErr
    /\ Len(states) >= 2
    /\ Len(calls) >= 2
    /\ \E a \in Accounts : a \notin DOMAIN Peek(states).dirtyBalances

\* C3: the keeper calls of Commit are the replay of the journal, frames bottom
\* to top and deltas in call order, mint-then-send for a credit and
\* send-then-burn for a debit; a failed Commit issued a prefix of it.
C3_CommitReplaysJournal ==
    ret.op = "Commit" =>
        /\ Len(calls) <= Len(Replay(Journal(states, 1)))
        /\ calls = SubSeq(Replay(Journal(states, 1)), 1, Len(calls))
        /\ ret.err = NoErr => calls = Replay(Journal(states, 1))

\* a successful Commit of two deltas of one account recorded in two frames
C3_Witness ==
    /\ ret.op = "Commit"
    /\ ret.err = NoErr
    /\ Len(states) >= 2
    /\ Len(states[1].balanceChanges) = 1
    /\ Len(states[2].balanceChanges) = 1
    /\ states[1].balanceChanges[1].Addr = states[2].balanceChanges[1].Addr
    /\ states[1].balanceChanges[1].Delta > 0
    /\ states[2].balanceChanges[1].Delta < 0

\* C4: a Commit that fails returns the error of the failing keeper call, issues
\* no call after it and keeps the effects of the calls that succeeded before it.
C4_CommitStopsAtFailure ==
    [][(commits' = commits + 1 /\ ret'.err # NoErr)
        => LET k == Len(calls')
               done == SubSeq(calls', 1, k - 1)
           IN  /\ k >= 1
               /\ calls' = SubSeq(Replay(Journal(states, 1)), 1, k)
               /\ ret'.err = Keeper(After(Bank, done), calls'[k], TRUE).err
                  \/ ret'.err = Keeper(After(Bank, done), calls'[k], FALSE).err
               /\ ledger' = After(Bank, done).ledger
               /\ moduleBal' = After(Bank, done).moduleBal
               /\ supply' = After(Bank, done).supply]_vars

\* a Commit that failed at the second call of its second delta
C4_Witness ==
    /\ ret.op = "Commit"
    /\ ret.err # NoErr
    /\ Len(calls) = 4
    /\ Len(Replay(Journal(states, 1))) = 4

\* C5: only Commit calls the keeper's mint, burn and send: a step of any
\* other operation (GetBalance, SetBalance, Snapshot, RevertToSnapshot,
\* Finalize) issues no keeper call and leaves every ledger balance, the module
\* balance and the supply as they were.
C5_OnlyCommitMutatesLedger ==
    [][commits' = commits
        => /\ calls' = <<>> \/ calls' = calls
           /\ ledger' = ledger
           /\ moduleBal' = moduleBal
           /\ supply' = supply]_vars

\* a SetBalance that recorded a delta
C5_Witness ==
    /\ ret.op = "SetBalance"
    /\ Balance(states, ledger, ret.addr) # ledger[ret.addr]
    /\ calls = <<>>

\* C6: after SetBalance(a, v) GetBalance(a) is v, and the balance of every
\* other account is what it was.
C6_LastSetWins ==
    [][ret'.op = "SetBalance"
        => \A a \in Accounts :
             Balance(states', ledger', a) =
                IF a = ret'.addr THEN ret'.newBalance ELSE Balance(states, ledger, a)]_vars

\* the second SetBalance of an account within one frame
C6_Witness ==
    /\ ret.op = "SetBalance"
    /\ Len(states) >= 1
    /\ Len(Peek(states).balanceChanges) = 2
    /\ Peek(states).balanceChanges[1].Addr = ret.addr
    /\ Peek(states).balanceChanges[2].Addr = ret.addr

DirtyIsLedgerPlusDeltas ==
    \A i \in 1 .. Len(states) :
        \A a \in DOMAIN states[i].dirtyBalances :
            states[i].dirtyBalances[a] = ledger[a] + SumDeltas(states, i, a)

\* C7 as claimed: in every reachable state, Commit included, dirty[a] of every
\* frame is the ledger balance of a plus the deltas of a at or below the frame.
C7_Original == DirtyIsLedgerPlusDeltas

\* C7: as long as no Commit was issued, dirty[a] of every frame is the ledger
\* balance of a plus the sum of the deltas of a recorded at or below the frame.
C7_DirtyBeforeCommit == commits = 0 => DirtyIsLedgerPlusDeltas

\* a frame above a snapshot whose dirty entry sums deltas of two frames
C7_Witness ==
    /\ commits = 0
    /\ Len(states) >= 2
    /\ \E a \in DOMAIN states[2].dirtyBalances :
         /\ SumDeltas(states, 1, a) # 0
         /\ SumDeltas(states, 2, a) # SumDeltas(states, 1, a)

----------------------------------------------------------------------------
(* Properties of the transaction pool *)

\* the step is an Insert call
IsInsert == pret'.op = "Insert" /\ sdbNonce' = sdbNonce

\* the hashes the Nonce Index holds
HashesOf(index) ==
    UNION {{index[s][n] : n \in DOMAIN index[s]} : s \in DOMAIN index}

HasReservedSigner(tx) ==
    \E i \in 1 .. Len(tx.signers) : BytesToAddress(tx.signers[i]) = ReservedAddress

C9_Original ==
    [][(IsInsert /\ GetAsEthTx(pret'.tx) /\ pret'.err = NoErr)
        => \A h1 \in DOMAIN ethTxCache :
             (/\ h1 # Hash(pret'.tx)
              /\ GetSender(ethTxCache[h1]) = GetSender(pret'.tx)
              /\ ethTxCache[h1].nonce = pret'.tx.nonce)
             => /\ nonceToHash'[GetSender(pret'.tx)][pret'.tx.nonce] = Hash(pret'.tx)
                /\ Hash(pret'.tx) \in DOMAIN ethTxCache'
                /\ h1 \notin DOMAIN ethTxCache']_vars

\* C10: Insert of a transaction with a reserved signer returns an error and
\* changes neither the underlying pool nor the Nonce Index nor the Tx Cache.
C10_ReservedSignerRejected ==
    [][(IsInsert /\ HasReservedSigner(pret'.tx))
        => /\ pret'.err # NoErr
           /\ pool' = pool
           /\ nonceToHash' = nonceToHash
           /\ ethTxCache' = ethTxCache]_vars

\* a transaction whose second signer is the reserved account was rejected
\* while the pool and the cache held transactions
C10_Witness ==
    /\ pret.op = "Insert"
    /\ Len(pret.tx.signers) = 2
    /\ BytesToAddress(pret.tx.signers[1]) # ReservedAddress
    /\ pret.err = "reserved account not allowed to send tx via mempool"
    /\ pool # <<>>
    /\ ethTxCache # <<>>

\* the underlying pool's Insert was called by the step and returned an error
BaseInsertFailed ==
    /\ Len(pret'.trace) >= 1
    /\ pret'.trace[1].call = "PriorityNonceMempool.Insert"
    /\ pret'.trace[1].err # NoErr

\* C11: when the underlying pool's Insert rejects the transaction, Insert
\* returns that error as it is, calls neither nr.GetNonce nor anything else
\* after it, and leaves the Nonce Index and the Tx Cache as they were.
C11_BaseRejectionPropagated ==
    [][(IsInsert /\ BaseInsertFailed)
        => /\ pret'.err = pret'.trace[1].err
           /\ Len(pret'.trace) = 1
           /\ nonceToHash' = nonceToHash
           /\ ethTxCache' = ethTxCache]_vars

\* an Ethereum transaction rejected by the underlying pool while another one
\* is cached
C11_Witness ==
    /\ pret.op = "Insert"
    /\ GetAsEthTx(pret.tx)
    /\ pret.trace = <<BaseInsert(ErrMempoolRejected)>>
    /\ ethTxCache # <<>>
    /\ Hash(pret.tx) \notin DOMAIN ethTxCache

\* the step is a Remove call
IsRemove == pret'.op = "Remove" /\ sdbNonce' = sdbNonce

\* nonceToHash[sender][nonce], the zero hash when there is no entry
IndexAt(index, sender, nonce) ==
    IF sender \in DOMAIN index THEN HashAt(index[sender], nonce) ELSE ZeroHash

HasIndexEntry(index, sender, nonce) ==
    sender \in DOMAIN index /\ nonce \in DOMAIN index[sender]

\* C13: Remove calls the underlying pool first. When that call fails, Remove
\* returns its error and the Nonce Index and Tx Cache are unchanged. When it
\* succeeds for an Ethereum transaction, the Tx Cache has no entry for its hash
\* and the Nonce Index none for its (sender, nonce); the entries of every other
\* (sender, nonce) are unchanged.
C13_RemoveDelegatesThenCleans ==
    [][IsRemove
        => LET tx == pret'.tx
           IN  /\ pret'.trace[1].call = "PriorityNonceMempool.Remove"
               /\ pret'.err = pret'.trace[1].err
               /\ pret'.err # NoErr
                    => nonceToHash' = nonceToHash /\ ethTxCache' = ethTxCache
               /\ (pret'.err = NoErr /\ GetAsEthTx(tx))
                    => /\ Hash(tx) \notin DOMAIN ethTxCache'
                       /\ ~HasIndexEntry(nonceToHash', GetSender(tx), tx.nonce)
                       /\ \A s \in EthSenders \cup {ReservedAddress}, n \in Nonces :
                            <<s, n>> # <<GetSender(tx), tx.nonce>>
                              => /\ IndexAt(nonceToHash', s, n) = IndexAt(nonceToHash, s, n)
                                 /\ HasIndexEntry(nonceToHash', s, n)
                                      = HasIndexEntry(nonceToHash, s, n)
                       /\ DOMAIN ethTxCache' \subseteq DOMAIN ethTxCache
                       /\ \A h \in DOMAIN ethTxCache :
                            <<GetSender(ethTxCache[h]), ethTxCache[h].nonce>>
                               # <<GetSender(tx), tx.nonce>>
                              => h \in DOMAIN ethTxCache' /\ ethTxCache'[h] = ethTxCache[h]]_vars

\* a Remove that took a cached Ethereum transaction out while another sender's
\* transaction stays cached
C13_Witness ==
    /\ pret.op = "Remove"
    /\ pret.err = NoErr
    /\ GetAsEthTx(pret.tx)
    /\ \E h \in DOMAIN ethTxCache : GetSender(ethTxCache[h]) # GetSender(pret.tx)
    /\ PoolKey(pret.tx) \notin DOMAIN pool

\* the step is a successful Remove of a superseded Ethereum transaction: the
\* Nonce Index entry of its (sender, nonce) points at another, cached, hash
RemovesSuperseded ==
    /\ IsRemove
    /\ pret'.err = NoErr
    /\ GetAsEthTx(pret'.tx)
    /\ IndexAt(nonceToHash, GetSender(pret'.tx), pret'.tx.nonce) # Hash(pret'.tx)
    /\ IndexAt(nonceToHash, GetSender(pret'.tx), pret'.tx.nonce) \in DOMAIN ethTxCache

\* C14 as claimed: a successful Remove of a superseded transaction deletes the
\* Nonce Index entry of (sender, nonce) and with it the cache entry of the
\* newer transaction the entry pointed at.
C14_Original ==
    [][RemovesSuperseded
        => LET tx == pret'.tx
               newer == IndexAt(nonceToHash, GetSender(tx), tx.nonce)
           IN  /\ ~HasIndexEntry(nonceToHash', GetSender(tx), tx.nonce)
               /\ newer \notin DOMAIN ethTxCache']_vars

\* C14: a successful Remove of a superseded transaction deletes the Nonce
\* Index entry of (sender, nonce) although it points at the newer hash; the
\* newer transaction's cache entry is not deleted: it stays in the Tx Cache,
\* no longer indexed, and the underlying pool holds nothing for (sender, nonce).
C14_SupersededRemoveUnindexesNewer ==
    [][RemovesSuperseded
        => LET tx == pret'.tx
               newer == IndexAt(nonceToHash, GetSender(tx), tx.nonce)
           IN  /\ ~HasIndexEntry(nonceToHash', GetSender(tx), tx.nonce)
               /\ newer \in DOMAIN ethTxCache'
               /\ ethTxCache'[newer] = ethTxCache[newer]
               /\ PoolKey(tx) \notin DOMAIN pool']_vars

\* after Insert(t_old), Insert(t_new), Remove(t_old): t_new is cached, the
\* index has no entry for its (sender, nonce) and the pool does not hold it
C14_Witness ==
    /\ pret.op = "Remove"
    /\ pret.err = NoErr
    /\ GetAsEthTx(pret.tx)
    /\ ~HasIndexEntry(nonceToHash, GetSender(pret.tx), pret.tx.nonce)
    /\ PoolKey(pret.tx) \notin DOMAIN pool
    /\ \E h \in DOMAIN ethTxCache :
         /\ h # Hash(pret.tx)
         /\ GetSender(ethTxCache[h]) = GetSender(pret.tx)
         /\ ethTxCache[h].nonce = pret.tx.nonce

\* the transactions the underlying pool holds
PoolTxs(p) == {p[k] : k \in DOMAIN p}

\* C15 as claimed, for a transaction that was neither pooled nor cached before
\* the call: when Insert returns an error the transaction is afterwards in
\* neither the underlying pool nor the Tx Cache nor the Nonce Index, and every
\* transaction that was pooled or cached before the call still is.
C15_Original ==
    [][(/\ IsInsert
        /\ pret'.err # NoErr
        /\ pret'.tx \notin PoolTxs(pool)
        /\ Hash(pret'.tx) \notin DOMAIN ethTxCache
        /\ Hash(pret'.tx) \notin HashesOf(nonceToHash))
        => /\ pret'.tx \notin PoolTxs(pool')
           /\ Hash(pret'.tx) \notin DOMAIN ethTxCache'
           /\ Hash(pret'.tx) \notin HashesOf(nonceToHash')
           /\ PoolTxs(pool) \subseteq PoolTxs(pool')
           /\ \A h \in DOMAIN ethTxCache :
                h \in DOMAIN ethTxCache' /\ ethTxCache'[h] = ethTxCache[h]]_vars

\* C16 as claimed: in every reachable state the Tx Cache holds at most one
\* transaction per (sender, nonce), and it is the one the Nonce Index points at.
C16_Original ==
    /\ \A h1, h2 \in DOMAIN ethTxCache :
         (/\ GetSender(ethTxCache[h1]) = GetSender(ethTxCache[h2])
          /\ ethTxCache[h1].nonce = ethTxCache[h2].nonce) => h1 = h2
    /\ \A h \in DOMAIN ethTxCache :
         IndexAt(nonceToHash, GetSender(ethTxCache[h]), ethTxCache[h].nonce) = h

\* C17 as claimed: in every reachable state every transaction resolvable
\* through the Tx Cache is held by the underlying pool.
C17_Original ==
    \A h \in DOMAIN ethTxCache : ethTxCache[h] \in PoolTxs(pool)

----------------------------------------------------------------------------
(* Properties of the balance overlay, continued *)

\* the step is a GetBalance call: the only operation that is not recorded in
\* ret and is not counted in commits
IsGetBalance == commits' = commits /\ ret' = ret

\* C18 as claimed: GetBalance leaves the stack of states, its height included,
\* and the ledger as they were in every state, the one without a frame included.
C18_Original ==
    [][IsGetBalance => states' = states /\ ledger' = ledger]_vars

\* C18: GetBalance issues no keeper call and leaves the ledger and every frame
\* on the stack as they were; on a stack without a frame it pushes one empty
\* frame (no deltas, empty dirty map). What it returns is the top frame's
\* dirty[account] if present and otherwise the ledger balance, before and
\* after the call.
C18_GetBalanceReadOnly ==
    [][IsGetBalance
        => /\ ledger' = ledger /\ moduleBal' = moduleBal /\ supply' = supply
           /\ calls' = calls
           /\ states' = IF states = <<>> THEN <<NewState>> ELSE states
           /\ \A a \in Accounts :
                /\ Balance(states', ledger', a) = Balance(states, ledger, a)
                /\ Balance(states, ledger, a) =
                     IF states # <<>> /\ a \in DOMAIN Peek(states).dirtyBalances
                     THEN Peek(states).dirtyBalances[a]
                     ELSE ledger[a]]_vars

\* the first operation on a new Manager was a GetBalance: it left the base frame
C18_Witness ==
    /\ ret.op = "NewManager"
    /\ states = <<NewState>>
    /\ Balance(states, ledger, "a2") = 0

\* C19: once a SetBalance recorded a non-zero delta, the stack of states has
\* at least one frame in every later state, whatever SetBalance, Snapshot,
\* RevertToSnapshot (to an id a Snapshot returned) and Commit calls follow.
C19_StackNeverEmptyAfterMutation == recorded > 0 => Len(states) >= 1

\* a revert to the first snapshot discarded the only recorded delta and left
\* the base frame
C19_Witness ==
    /\ recorded > 0
    /\ ret.op = "RevertToSnapshot"
    /\ ret.id = 1
    /\ ret.discarded > 0
    /\ Len(states) = 1
    /\ NumChanges(states) = 0

\* no frame holds a zero delta and no keeper call of the last Commit has a
\* zero amount
NoZeroDelta ==
    /\ \A i \in 1 .. Len(states) :
         \A j \in 1 .. Len(states[i].balanceChanges) :
            states[i].balanceChanges[j].Delta # 0
    /\ \A k \in 1 .. Len(calls) : calls[k].amt > 0

\* C20: SetBalance(a, v) with v the balance GetBalance(a) returns appends no
\* delta and leaves every dirty map as it is; no frame ever holds a zero delta
\* and Commit never calls the keeper with a zero amount.
C20_NoZeroDeltas ==
    /\ []NoZeroDelta
    /\ [][(/\ ret'.op = "SetBalance"
           /\ commits' = commits
           /\ ret'.newBalance = Balance(states, ledger, ret'.addr))
          => /\ states' = IF states = <<>> THEN <<NewState>> ELSE states
             /\ Journal(states', 1) = Journal(states, 1)
             /\ recorded' = recorded]_vars

\* a SetBalance to the balance the account already has in the overlay, called
\* after a delta of the account was recorded in the same frame
C20_Witness ==
    /\ ret.op = "SetBalance"
    /\ Len(states) >= 1
    /\ ret.addr \in DOMAIN Peek(states).dirtyBalances
    /\ Peek(states).balanceChanges # <<>>
    /\ Peek(states).balanceChanges[Len(Peek(states).balanceChanges)].Addr # ret.addr
    /\ calls = <<>>

----------------------------------------------------------------------------
(* Properties of the transaction pool under concurrent callers *)

\* the callers between lock acquisition and release
InCritical == {t \in Callers : pc[t] \notin {"idle", "Lock"}}

MutualExclusion ==
    /\ Cardinality(InCritical) <= 1
    /\ \A t \in InCritical : mu = t

\* a step that calls the underlying pool, looks up the nonce or changes the
\* index or the cache is a step of the caller that holds the lock
LockHeldAcross ==
    \A t \in Callers :
        (pc[t] \notin {"idle", "Lock"} /\ pc'[t] # pc[t]) => mu = t

\* what is protected changes only in steps of the holder
OnlyHolderWrites ==
    Shared' # Shared => (mu # 0 /\ mu' = mu /\ pc'[mu] # pc[mu])

\* when a caller releases the lock, the pool, index and cache are what the
\* call as one atomic step makes of what they were when it took the lock, and
\* the error it returns is the error of that step
MatchesSequentialCall ==
    \A t \in Callers :
        (pc[t] = "Unlock" /\ pc'[t] = "idle")
          => LET r == IF job[t].op = "Insert"
                      THEN SeqInsert(entry, job[t].tx, job[t].accept, job[t].sdb)
                      ELSE SeqRemove(entry, job[t].tx)
             IN  Shared = r.s /\ <<Returned(job[t])>> = <<r.err>>

\* C12: at most one caller is between etp.mu.Lock() and Unlock(); the lock is
\* held in every step of Insert and Remove that calls the underlying pool,
\* looks up the nonce or updates the Nonce Index or the Tx Cache; every call
\* therefore acts as one atomic step taken when it holds the lock, so the pool
\* is always in a state some sequential order of the calls reaches.
C12_InsertRemoveExclusive ==
    /\ []MutualExclusion
    /\ [][LockHeldAcross /\ OnlyHolderWrites /\ MatchesSequentialCall]_vars

\* one caller is about to record a transaction in the index and the cache
\* while another caller waits at Lock with a Remove of the same sender and nonce
C12_Witness ==
    \E t1, t2 \in Callers :
        /\ pc[t1] = "record"
        /\ pc[t2] = "Lock"
        /\ job[t2].op = "Remove"
        /\ PoolKey(job[t2].tx) = PoolKey(job[t1].tx)
        /\ ethTxCache # <<>>

\* the step is a Snapshot call
IsSnapshot == ret'.op = "Snapshot" /\ Len(states') > Len(states)

\* C21: Snapshot pushes exactly one frame, on top of the base frame it creates
\* first when the stack is empty; the new frame has no deltas and the dirty map
\* of the frame below it; the frames below are unchanged, GetBalance is
\* unchanged for every account, and the result is the new height minus one,
\* which is at least 1. A later SetBalance changes only the top frame.
C21_SnapshotPushesCopy ==
    /\ [][IsSnapshot
          => LET st == IF states = <<>> THEN <<NewState>> ELSE states
             IN  /\ Len(states') = Len(st) + 1
                 /\ SubSeq(states', 1, Len(st)) = st
                 /\ Peek(states').balanceChanges = <<>>
                 /\ Peek(states').dirtyBalances = Peek(st).dirtyBalances
                 /\ \A a \in Accounts :
                      Balance(states', ledger', a) = Balance(states, ledger, a)
                 /\ ret'.result = Len(states') - 1
                 /\ ret'.result >= 1]_vars
    /\ [][(ret'.op = "SetBalance" /\ commits' = commits)
          => \A i \in 1 .. Len(states) - 1 : states'[i] = states[i]]_vars

\* a SetBalance in the frame a Snapshot pushed over a frame with a dirty
\* balance: the two dirty maps differ
C21_Witness ==
    /\ ret.op = "SetBalance"
    /\ Len(states) >= 2
    /\ states[Len(states) - 1].dirtyBalances # <<>>
    /\ Len(Peek(states).balanceChanges) = 1
    /\ \E a \in DOMAIN states[Len(states) - 1].dirtyBalances :
         Peek(states).dirtyBalances[a] # states[Len(states) - 1].dirtyBalances[a]

\* the step is a RevertToSnapshot call
IsRevert == ret'.op = "RevertToSnapshot" /\ Len(states') < Len(states)

\* a frame below the top frame is changed by no step that keeps it
LowerFramesFrozen ==
    \A i \in 1 .. Len(states) - 1 : i <= Len(states') => states'[i] = states[i]

\* RevertToSnapshot(id) leaves the stack at height id with the frames 1 .. id
\* as they were, and frames 1 .. id were not changed since the snapshot
RevertTruncates ==
    /\ LowerFramesFrozen
    /\ IsRevert => /\ Len(states') = ret'.id
                   /\ states' = SubSeq(states, 1, ret'.id)

\* C22 as claimed: RevertToSnapshot(id) leaves the stack at height id with the
\* earlier frames unchanged, and GetBalance afterwards is, for every account,
\* what it was when the snapshot was taken (it reflects only the deltas
\* recorded before the snapshot), after every sequence of operations.
C22_Original ==
    [][/\ RevertTruncates
       /\ IsRevert => \A a \in Accounts :
                        Balance(states', ledger', a) = snapView[ret'.id + 1].bal[a]]_vars

\* C22: RevertToSnapshot(id) leaves the stack at height id with the earlier
\* frames unchanged; when no Commit changed the ledger since the snapshot was
\* taken, GetBalance afterwards is, for every account, what it was when the
\* snapshot was taken.
C22_RevertTruncatesToId ==
    [][/\ RevertTruncates
       /\ (IsRevert /\ snapView[ret'.id + 1].clean)
            => \A a \in Accounts :
                 Balance(states', ledger', a) = snapView[ret'.id + 1].bal[a]]_vars

\* a revert to the outer of two nested snapshots that discarded a delta
C22_Witness ==
    /\ ret.op = "RevertToSnapshot"
    /\ ret.id = 1
    /\ ret.height = 3
    /\ ret.discarded > 0
    /\ Len(states) = 1

\* the step is a Commit call
IsCommit == commits' = commits + 1

\* s is an initial part of t
IsPrefix(s, t) == Len(s) <= Len(t) /\ s = SubSeq(t, 1, Len(s))

\* a Commit issued right after a Commit issues the same keeper calls in the
\* same order, each of the two up to the first call that returns an error
ReplaysAgain ==
    (IsCommit /\ ret.op = "Commit")
        => /\ IsPrefix(calls, calls') \/ IsPrefix(calls', calls)
           /\ IsPrefix(calls', Replay(Journal(states, 1)))
           /\ (Len(calls) < Len(calls') => ret.err # NoErr)
           /\ (Len(calls') < Len(calls) => ret'.err # NoErr)

\* C26 as claimed: Commit leaves the stack height and every frame's delta log
\* and dirty map as they were, whether it succeeds or fails, in every state,
\* and a Commit that follows a Commit issues the same keeper calls again.
C26_Original ==
    [][(IsCommit => states' = states) /\ ReplaysAgain]_vars

\* C26: Commit leaves every frame's delta log and dirty map as they were,
\* whether it succeeds or fails; the height is unchanged when a frame exists
\* and goes from 0 to 1 (the empty base frame) when none exists yet; a Commit
\* that follows a Commit issues the same keeper calls again.
C26_CommitKeepsStack ==
    [][/\ IsCommit => /\ Len(states) >= 1 => states' = states
                      /\ Len(states) = 0 => states' = <<NewState>>
       /\ ReplaysAgain]_vars

\* a second Commit replayed a delta recorded above a snapshot
C26_Witness ==
    /\ commits = 2
    /\ ret.op = "Commit"
    /\ Len(calls) = 2
    /\ Len(states) = 2
    /\ Len(states[2].balanceChanges) = 1

\* sum of all the deltas of a journal
RECURSIVE TotalDelta(_)
TotalDelta(changes) ==
    IF changes = <<>> THEN 0 ELSE Head(changes).Delta + TotalDelta(Tail(changes))

\* C27: a successful Commit leaves the module account's balance unchanged and
\* changes the total supply by exactly the sum of the replayed deltas; after
\* each fully replayed delta the module account holds what it held before the
\* Commit (no overlay account is the module account).
C27_ModuleAccountNeutral ==
    [][(IsCommit /\ ret'.err = NoErr)
        => LET journal == Journal(states, 1)
           IN  /\ moduleBal' = moduleBal
               /\ supply' - supply = TotalDelta(journal)
               /\ \A k \in 0 .. Len(journal) :
                    After(Bank, Replay(SubSeq(journal, 1, k))).moduleBal = moduleBal]_vars

\* a successful Commit that replayed a debit and a credit
C27_Witness ==
    /\ ret.op = "Commit"
    /\ ret.err = NoErr
    /\ Len(calls) = 4
    /\ \E i, j \in 1 .. 4 : calls[i].op = "MintCoins" /\ calls[j].op = "BurnCoins"

\* the keeper call found the funds it moves or burns
Funded(b, call) ==
    /\ call.op = "SendCoinsFromAccountToModule" => b.ledger[call.addr] >= call.amt
    /\ call.op \in {"SendCoinsFromModuleToAccount", "BurnCoins"} => b.moduleBal >= call.amt

\* C28: with non-negative SetBalance values and a ledger that nothing but the
\* Commit itself modifies, every SendCoinsFromAccountToModule of the Commit is
\* issued against an account that holds at least the debited amount, whatever
\* SetBalance, Snapshot and RevertToSnapshot calls came before: the Commit
\* never fails for insufficient funds.
C28_DebitsAreFunded ==
    [][(IsCommit /\ commits = 0)
        => /\ \A k \in 1 .. Len(calls') :
                Funded(After(Bank, SubSeq(calls', 1, k - 1)), calls'[k])
           /\ ret'.err = NoErr \/ ret'.err[1] = "keeper error"]_vars

\* a first Commit debited an account after a revert had discarded a delta
C28_Witness ==
    /\ commits = 1
    /\ ret.op = "Commit"
    /\ ret.err = NoErr
    /\ recorded > NumChanges(states)
    /\ \E k \in 1 .. Len(calls) : calls[k].op = "SendCoinsFromAccountToModule"

\* the call looked up the statedb nonce
LookedUpNonce(trace) == \E i \in 1 .. Len(trace) : trace[i].call = "nr.GetNonce"

\* C23: the index and the cache are touched exactly for Ethereum transactions.
\* An Insert of another transaction that the underlying pool accepts admits
\* it without a nonce lookup and leaves both maps unchanged, and so does its
\* Remove; an Insert of an Ethereum transaction that the underlying pool
\* accepts looks up the nonce, and when it returns nil the transaction is
\* indexed and cached; a successful Remove of one leaves neither its index
\* entry nor its hash in the cache.
C23_BookkeepingOnlyForEthTx ==
    [][/\ (IsInsert /\ ~GetAsEthTx(pret'.tx) /\ pret'.err = NoErr)
            => /\ PoolKey(pret'.tx) \in DOMAIN pool'
               /\ pool'[PoolKey(pret'.tx)] = pret'.tx
               /\ ~LookedUpNonce(pret'.trace)
               /\ nonceToHash' = nonceToHash
               /\ ethTxCache' = ethTxCache
       /\ (IsRemove /\ ~GetAsEthTx(pret'.tx))
            => /\ nonceToHash' = nonceToHash
               /\ ethTxCache' = ethTxCache
       /\ (IsInsert /\ GetAsEthTx(pret'.tx) /\ Len(pret'.trace) >= 1 /\ pret'.trace[1] = BaseInsert(NoErr))
            => /\ LookedUpNonce(pret'.trace)
               /\ pret'.err = NoErr
                    => /\ IndexAt(nonceToHash', GetSender(pret'.tx), pret'.tx.nonce)
                            = Hash(pret'.tx)
                       /\ Hash(pret'.tx) \in DOMAIN ethTxCache'
                       /\ ethTxCache'[Hash(pret'.tx)] = pret'.tx
       /\ (IsRemove /\ GetAsEthTx(pret'.tx) /\ pret'.err = NoErr)
            => /\ Hash(pret'.tx) \notin DOMAIN ethTxCache'
               /\ ~HasIndexEntry(nonceToHash', GetSender(pret'.tx), pret'.tx.nonce)]_vars

\* another kind of transaction was admitted, and then removed, while an
\* Ethereum transaction of the same sender and nonce stayed indexed and cached
C23_Witness ==
    /\ pret.op = "Remove"
    /\ ~GetAsEthTx(pret.tx)
    /\ pret.err = NoErr
    /\ pret.tx.signers = <<S1>>
    /\ IndexAt(nonceToHash, S1, 0) # ZeroHash
    /\ IndexAt(nonceToHash, S1, 0) \in DOMAIN ethTxCache

----------------------------------------------------------------------------
(* Properties of EthTxPool, continued *)

\* no dangling index entry: the hash the Nonce Index holds for (s, n) is cached
\* and is the hash of a transaction of sender s and nonce n
IndexEntriesCached ==
    \A s \in DOMAIN nonceToHash : \A n \in DOMAIN nonceToHash[s] :
        LET h == nonceToHash[s][n]
        IN  /\ h \in DOMAIN ethTxCache
            /\ GetSender(ethTxCache[h]) = s
            /\ ethTxCache[h].nonce = n

\* no orphaned cache entry: the Nonce Index points at every cached hash
CacheEntriesIndexed ==
    \A h \in DOMAIN ethTxCache :
        LET s == GetSender(ethTxCache[h])
            n == ethTxCache[h].nonce
        IN  HasIndexEntry(nonceToHash, s, n) /\ nonceToHash[s][n] = h

\* C29 as claimed: after every sequence of Insert and Remove calls the Nonce
\* Index and the Tx Cache agree in both directions, with no dangling index
\* entry and no orphaned cache entry.
C29_Original == IndexEntriesCached /\ CacheEntriesIndexed

----------------------------------------------------------------------------
(* Properties of the concurrent callers, continued *)

\* a caller that has returned does not hold the lock
ReleasedOnReturn == \A t \in Callers : pc[t] = "idle" => mu # t

\* C30: Insert and Remove release the lock on every return path, and no call
\* waits for a lock it holds itself, the nonce-too-low path of Insert
\* included; under fair scheduling every call of a concurrent caller
\* eventually returns.
C30_EveryCallReturns ==
    /\ []ReleasedOnReturn
    /\ \A t \in Callers : (pc[t] # "idle") ~> (pc[t] = "idle")

\* an Insert is about to return from its nonce-too-low path, holding the
\* lock, while another caller waits in etp.mu.Lock()
C30_Witness ==
    \E t1, t2 \in Callers :
        /\ pc[t1] = "Unlock"
        /\ job[t1].op = "Insert"
        /\ job[t1].sdb > job[t1].tx.nonce
        /\ mu = t1
        /\ pc[t2] = "Lock"

----------------------------------------------------------------------------
(* Properties of the genesis pass *)

\* the last genesis call invoked Reset first, Finalize last and neither in between
Bracketed ==
    /\ Len(pluginCalls) >= 2
    /\ pluginCalls[1].call = "Reset"
    /\ pluginCalls[Len(pluginCalls)].call = "Finalize"
    /\ \A i \in 2 .. Len(pluginCalls) - 1 :
         pluginCalls[i].call \notin {"Reset", "Finalize"}

\* C24 as claimed: InitGenesis and ExportGenesis both call Reset before their
\* first account read or write and Finalize after their last one, on every
\* execution path.
C24_Original == gret.op \in {"InitGenesis", "ExportGenesis"} => Bracketed

\* the accounts ExportGenesis has to export: those with storage or code
Exported == WithState(accountStore) \cup WithCode(accountStore)

\* C25 as claimed: InitGenesis calls no SetBalance and records no balance
\* delta, whatever the balance fields of the genesis accounts are, and
\* ExportGenesis emits every account with storage or code with the balance
\* GetBalance returns for it.
C25_Original ==
    /\ gret.op = "InitGenesis"
         => /\ \A i \in DOMAIN pluginCalls : pluginCalls[i].call # "SetBalance"
            /\ NumChanges(states) = 0
    /\ gret.op = "ExportGenesis"
         => /\ DOMAIN ethGen = Exported
            /\ \A a \in DOMAIN ethGen : ethGen[a].Balance = Balance(states, ledger, a)

====
